---- MODULE Spec2Model ----
(***************************************************************************)
(* A model of the class-augmentation library: the decorator adapter        *)
(* (function_decorators.py), the two class decorators (class_decorators.py)*)
(* and the hexbytes class built with them (hexbytes.py).                   *)
(*                                                                         *)
(* A class is its attribute table: name -> [func, kind, layers].  func is  *)
(* the identity <<owner, name>> of the undecorated function, kind says how *)
(* the attribute binds, layers is the stack of wrappers put around it, the *)
(* outermost first.  Objects live in a heap (a sequence, the id of an      *)
(* object is its index); values are records tagged by k.  Text is a       *)
(* sequence of one-character strings.                                      *)
(***************************************************************************)
EXTENDS Integers, Sequences, FiniteSets, TLC

VARIABLES pc, methods, decor, heap, last, ret, ctor

vars == <<pc, methods, decor, heap, last, ret, ctor>>

(***************************************************************************)
(* Bounds                                                                  *)
(***************************************************************************)
MaxLen == 2
MaxDecor == 2
MaxTok == 4
MaxArgs == 2

(***************************************************************************)
(* Values                                                                  *)
(***************************************************************************)
NoneV == [k |-> "None"]
IntV(n) == [k |-> "int", n |-> n]
BoolV(b) == [k |-> "bool", b |-> b]
StrV(s) == [k |-> "str", s |-> s]
BytesV(bs) == [k |-> "bytes", bs |-> bs]
ObjV(i) == [k |-> "obj", id |-> i]
CollV(kind, elems) == [k |-> kind, elems |-> elems]
Raise(exc) == [k |-> "raise", exc |-> exc]
ClassV(c) == [k |-> "class", name |-> c]
FuncV(f) == [k |-> "func", name |-> f]

SeqKinds == {"list", "tuple", "set", "frozenset"}

Range(s) == {s[i] : i \in DOMAIN s}

SeqsUpTo(S, n) == UNION {[1..m -> S] : m \in 0..n}

\* The result of running a piece of code: the heap it leaves, the value it
\* returns (or the exception it raises) and the arguments the constructor of
\* the decorated class was called with on the way.
Res(h, v, c) == [heap |-> h, ret |-> v, ctor |-> c]

IsRaise(v) == v.k = "raise"

(***************************************************************************)
(* The classes: object, bytearray ("P") and the decorated class ("C")      *)
(***************************************************************************)
Mro(c) ==
    CASE c = "D" -> <<"D", "C", "P", "object">>
      [] c = "C" -> <<"C", "P", "object">>
      [] c = "P" -> <<"P", "object">>
      [] c = "object" -> <<"object">>
      [] OTHER -> <<c, "object">>

issubclass(c, t) == t \in Range(Mro(c))

TypeOf(h, v) ==
    CASE v.k = "obj" -> h[v.id].cls
      [] v.k = "None" -> "NoneType"
      [] OTHER -> v.k

Attr(owner, name, kind) == [func |-> <<owner, name>>, kind |-> kind, layers |-> <<>>]

ObjectNames == {"__eq__", "__init__", "__new__", "__repr__", "__str__"}

BytearrayInstanceNames ==
    {"__delitem__", "__getitem__", "__setitem__", "__init__", "__len__",
     "__alloc__", "__contains__", "__repr__", "__str__", "__iter__", "__eq__",
     "__iadd__", "append", "extend", "reverse", "pop", "clear", "join",
     "rjust", "ljust", "copy", "hex"}

BytearrayAttrs ==
    [n \in BytearrayInstanceNames \cup {"__new__", "fromhex"} |->
        CASE n = "__new__" -> Attr("P", n, "static")
          [] n = "fromhex" -> Attr("P", n, "class")
          [] OTHER -> Attr("P", n, "instance")]

HexbytesOwnInstance == {"__str__", "set", "get", "_hexbytes__padhex", "lpad", "rpad"}
HexbytesOwnClass == {"ishexbyte", "enforcehexbyte", "fromtext"}

\* The class as the class statement leaves it, before any decorator runs.
HexbytesBody ==
    [n \in DOMAIN BytearrayAttrs \cup HexbytesOwnInstance \cup HexbytesOwnClass |->
        IF n \in HexbytesOwnInstance THEN Attr("C", n, "instance")
        ELSE IF n \in HexbytesOwnClass THEN Attr("C", n, "class")
        ELSE BytearrayAttrs[n]]

(***************************************************************************)
(* Text: str.upper, str.split, the `in` test on strings, int(s, 16),       *)
(* format(n, '02x') and bytearray.fromhex                                  *)
(***************************************************************************)
valid_chars ==
    <<"0", "1", "2", "3", "4", "5", "6", "7", "8", "9", "A", "B", "C", "D", "E", "F">>

LowerHex ==
    <<"0", "1", "2", "3", "4", "5", "6", "7", "8", "9", "a", "b", "c", "d", "e", "f">>

UpperChar(c) ==
    CASE c = "a" -> "A" [] c = "b" -> "B" [] c = "c" -> "C" [] c = "d" -> "D"
      [] c = "e" -> "E" [] c = "f" -> "F" [] c = "z" -> "Z" [] OTHER -> c

str_upper(s) == [i \in DOMAIN s |-> UpperChar(s[i])]

IsSpace(c) == c = " "

\* The length of the run of non-blank characters s starts with.
WordLen(s) ==
    CHOOSE n \in 1..Len(s) :
        /\ \A i \in 1..n : ~IsSpace(s[i])
        /\ n = Len(s) \/ IsSpace(s[n + 1])

RECURSIVE str_split(_)
str_split(s) ==
    IF s = <<>> THEN <<>>
    ELSE IF IsSpace(Head(s)) THEN str_split(Tail(s))
    ELSE LET n == WordLen(s)
         IN <<SubSeq(s, 1, n)>> \o str_split(SubSeq(s, n + 1, Len(s)))

\* `part in text` for two strings: part occurs in text as a contiguous run.
str_in(part, text) ==
    \E i \in 1..(Len(text) - Len(part) + 1) : SubSeq(text, i, i + Len(part) - 1) = part

IsHexDigit(c) == UpperChar(c) \in Range(valid_chars)

HexVal(c) == (CHOOSE i \in DOMAIN valid_chars : valid_chars[i] = UpperChar(c)) - 1

RECURSIVE str_strip(_)
str_strip(s) ==
    IF s = <<>> THEN s
    ELSE IF IsSpace(Head(s)) THEN str_strip(Tail(s))
    ELSE IF IsSpace(s[Len(s)]) THEN str_strip(SubSeq(s, 1, Len(s) - 1))
    ELSE s

RECURSIVE HexNumber(_)
HexNumber(s) == IF s = <<>> THEN 0 ELSE 16 * HexNumber(SubSeq(s, 1, Len(s) - 1)) + HexVal(s[Len(s)])

\* int(s, 16) on text without sign, prefix or underscore.
int16(s) ==
    LET t == str_strip(s)
    IN IF t # <<>> /\ \A i \in DOMAIN t : IsHexDigit(t[i])
       THEN IntV(HexNumber(t))
       ELSE Raise("ValueError")

format02x(n) == <<LowerHex[(n \div 16) + 1], LowerHex[(n % 16) + 1]>>

\* bytearray.fromhex: pairs of hex digits, blanks allowed only between pairs.
RECURSIVE fromhex(_)
fromhex(s) ==
    IF s = <<>> THEN [ok |-> TRUE, bs |-> <<>>]
    ELSE IF IsSpace(Head(s)) THEN fromhex(Tail(s))
    ELSE IF Len(s) >= 2 /\ IsHexDigit(s[1]) /\ IsHexDigit(s[2])
    THEN LET rest == fromhex(SubSeq(s, 3, Len(s)))
         IN [ok |-> rest.ok, bs |-> <<16 * HexVal(s[1]) + HexVal(s[2])>> \o rest.bs]
    ELSE [ok |-> FALSE, bs |-> <<>>]

ishexbyte(hex_str) ==
    LET hex_chars == str_split(str_upper(hex_str))
    IN /\ Len(hex_chars) = 2
       /\ str_in(hex_chars[1], valid_chars)
       /\ str_in(hex_chars[2], valid_chars)

enforcehexbyte(hex_str) ==
    IF hex_str.k # "str" THEN Raise("TypeError")
    ELSE IF ~ishexbyte(hex_str.s) THEN Raise("ValueError")
    ELSE NoneV

(***************************************************************************)
(* The methods of bytearray                                                *)
(***************************************************************************)
IsBytesLike(h, v) == v.k = "bytes" \/ (v.k = "obj" /\ issubclass(h[v.id].cls, "P"))

BytesOf(h, v) == IF v.k = "bytes" THEN v.bs ELSE h[v.id].bytes

Alloc(h, cls, bs) == Append(h, [cls |-> cls, bytes |-> bs])

Reverse(s) == [i \in DOMAIN s |-> s[Len(s) + 1 - i]]

Fill(n, b) == [i \in 1..n |-> b]

\* Python indexing: a negative index counts from the end; 0 when out of range.
Index(bs, i) ==
    LET j == IF i < 0 THEN i + Len(bs) + 1 ELSE i + 1
    IN IF j \in 1..Len(bs) THEN j ELSE 0

RECURSIVE JoinBytes(_, _, _)
JoinBytes(h, sep, elems) ==
    IF elems = <<>> THEN <<>>
    ELSE IF Len(elems) = 1 THEN BytesOf(h, elems[1])
    ELSE BytesOf(h, elems[1]) \o sep \o JoinBytes(h, sep, Tail(elems))

Just(h, s, args, left) ==
    LET b == h[s].bytes
        width == args[1].n
        fill == args[2]
    IN IF ~IsBytesLike(h, fill) \/ Len(BytesOf(h, fill)) # 1
       THEN Res(h, Raise("TypeError"), <<>>)
       ELSE LET pad == Fill(IF width > Len(b) THEN width - Len(b) ELSE 0, BytesOf(h, fill)[1])
                h2 == Alloc(h, "P", IF left THEN pad \o b ELSE b \o pad)
            IN Res(h2, ObjV(Len(h2)), <<>>)

bytearray_method(h, s, name, args) ==
    LET b == h[s].bytes
    IN CASE name = "append" ->
              IF args[1].n \notin 0..255 THEN Res(h, Raise("ValueError"), <<>>)
              ELSE Res([h EXCEPT ![s].bytes = Append(b, args[1].n)], NoneV, <<>>)
         [] name = "extend" ->
              Res([h EXCEPT ![s].bytes = b \o BytesOf(h, args[1])], NoneV, <<>>)
         [] name = "__iadd__" ->
              Res([h EXCEPT ![s].bytes = b \o BytesOf(h, args[1])], ObjV(s), <<>>)
         [] name = "reverse" ->
              Res([h EXCEPT ![s].bytes = Reverse(b)], NoneV, <<>>)
         [] name = "clear" ->
              Res([h EXCEPT ![s].bytes = <<>>], NoneV, <<>>)
         [] name = "pop" ->
              IF b = <<>> THEN Res(h, Raise("IndexError"), <<>>)
              ELSE Res([h EXCEPT ![s].bytes = SubSeq(b, 1, Len(b) - 1)], IntV(b[Len(b)]), <<>>)
         [] name = "copy" ->
              LET h2 == Alloc(h, "P", b) IN Res(h2, ObjV(Len(h2)), <<>>)
         [] name = "__len__" -> Res(h, IntV(Len(b)), <<>>)
         [] name = "__getitem__" ->
              LET j == Index(b, args[1].n)
              IN IF j = 0 THEN Res(h, Raise("IndexError"), <<>>) ELSE Res(h, IntV(b[j]), <<>>)
         [] name = "__setitem__" ->
              LET j == Index(b, args[1].n)
              IN IF j = 0 THEN Res(h, Raise("IndexError"), <<>>)
                 ELSE IF args[2].n \notin 0..255 THEN Res(h, Raise("ValueError"), <<>>)
                 ELSE Res([h EXCEPT ![s].bytes = [b EXCEPT ![j] = args[2].n]], NoneV, <<>>)
         [] name = "join" ->
              IF \E i \in DOMAIN args[1].elems : ~IsBytesLike(h, args[1].elems[i])
              THEN Res(h, Raise("TypeError"), <<>>)
              ELSE LET h2 == Alloc(h, "P", JoinBytes(h, b, args[1].elems))
                   IN Res(h2, ObjV(Len(h2)), <<>>)
         [] name = "rjust" -> Just(h, s, args, TRUE)
         [] name = "ljust" -> Just(h, s, args, FALSE)

(***************************************************************************)
(* helper.seq_holdstype and the two wrappers                               *)
(***************************************************************************)
\* cls is a type name, or "" for the default None (no check of the elements).
seq_holdstype(obj, cls) ==
    /\ obj.k \in SeqKinds
    /\ cls = "" \/ \A i \in DOMAIN obj.elems : obj.elems[i].k = cls

\* issuperclass of inherit_methods.apply_wrapper: the type of obj is cls or
\* one of its ancestors.
issuperclass(h, obj, cls) == issubclass(cls, TypeOf(h, obj))

\* copy.deepcopy(self): a new object of the same class with the same bytes.
deepcopy(h, s) == Alloc(h, h[s].cls, h[s].bytes)

\* cls(src) for a subclass of bytearray: a new object holding the bytes of a
\* bytes-like src; TypeError for an object that is not bytes-like.  The call
\* is recorded in ctor, made or failed.
Construct(h, cls, src) ==
    IF IsBytesLike(h, src)
    THEN LET h2 == Alloc(h, cls, BytesOf(h, src)) IN Res(h2, ObjV(Len(h2)), <<src>>)
    ELSE Res(h, Raise("TypeError"), <<src>>)

\* The generator of line 94 consumed by type(result): each element in turn.
RECURSIVE DowncastElems(_, _, _)
DowncastElems(h, elems, cls) ==
    IF elems = <<>> THEN Res(h, CollV("list", <<>>), <<>>)
    ELSE LET x == Head(elems)
             first == IF issuperclass(h, x, cls) THEN Construct(h, cls, x) ELSE Res(h, x, <<>>)
         IN IF IsRaise(first.ret) THEN first
            ELSE LET rest == DowncastElems(first.heap, Tail(elems), cls)
                 IN IF IsRaise(rest.ret) THEN Res(rest.heap, rest.ret, first.ctor \o rest.ctor)
                    ELSE Res(rest.heap, CollV("list", <<first.ret>> \o rest.ret.elems),
                             first.ctor \o rest.ctor)

\* What inherit_methods' wrapped_func does with the result of super_method.
DowncastResult(r, cls) ==
    IF IsRaise(r.ret) THEN r
    ELSE IF issuperclass(r.heap, r.ret, cls)
    THEN LET c == Construct(r.heap, cls, r.ret) IN Res(c.heap, c.ret, r.ctor \o c.ctor)
    ELSE IF seq_holdstype(r.ret, "")
    THEN LET g == DowncastElems(r.heap, r.ret.elems, cls)
         IN Res(g.heap,
                IF IsRaise(g.ret) THEN g.ret ELSE CollV(r.ret.k, g.ret.elems),
                r.ctor \o g.ctor)
    ELSE r

ImmutifyResult_warn(r, copy_obj) ==
    IF IsRaise(r.ret) THEN r ELSE Res(r.heap, ObjV(copy_obj), r.ctor)

\* What immutify_methods' wrapped_func does with the result of func(copy_obj):
\* copy_obj is the id of the copy.
ImmutifyResult(r, copy_obj) ==
    IF IsRaise(r.ret) THEN r
    ELSE IF r.ret # NoneV THEN Res(r.heap, Raise("RuntimeError"), r.ctor)
    ELSE Res(r.heap, ObjV(copy_obj), r.ctor)

(***************************************************************************)
(* Calling an attribute of the class on an object: m is the class's table, *)
(* h the heap, s the id of self                                            *)
(***************************************************************************)
RECURSIVE CallAttr(_, _, _, _, _)
RECURSIVE RunLayers(_, _, _, _, _, _)
RECURSIVE hexbytes_method(_, _, _, _, _)

inherit_wrapped_func(m, h, s, func, inner, args) ==
    DowncastResult(RunLayers(m, h, s, func, inner, args), "C")

immutify_wrapped_func_inplace(m, h, s, func, inner, args) ==
    ImmutifyResult(RunLayers(m, h, s, func, inner, args), s)

immutify_wrapped_func(m, h, s, func, inner, args) ==
    LET h2 == deepcopy(h, s)
        copy_obj == Len(h2)
    IN ImmutifyResult(RunLayers(m, h2, copy_obj, func, inner, args), copy_obj)

RunLayers(m, h, s, func, layers, args) ==
    IF layers = <<>>
    THEN IF func[1] = "C" THEN hexbytes_method(m, h, s, func[2], args)
         ELSE bytearray_method(h, s, func[2], args)
    ELSE IF Head(layers) = "immut"
    THEN immutify_wrapped_func(m, h, s, func, Tail(layers), args)
    ELSE inherit_wrapped_func(m, h, s, func, Tail(layers), args)

CallAttr(m, h, s, name, args) == RunLayers(m, h, s, m[name].func, m[name].layers, args)

\* hexbytes.set(index, hex_str): args = <<index, hex_str>>
hexbytes_set(m, h, s, args) ==
    LET e == enforcehexbyte(args[2])
    IN IF IsRaise(e) THEN Res(h, e, <<>>)
       ELSE LET v == int16(args[2].s)
            IN IF IsRaise(v) THEN Res(h, v, <<>>)
               ELSE LET r == CallAttr(m, h, s, "__setitem__", <<args[1], v>>)
                    IN Res(r.heap, IF IsRaise(r.ret) THEN r.ret ELSE NoneV, r.ctor)

\* hexbytes.get(index): args = <<index>>
hexbytes_get(m, h, s, args) ==
    LET r == CallAttr(m, h, s, "__getitem__", <<args[1]>>)
    IN IF IsRaise(r.ret) THEN r
       ELSE IF r.ret.k # "int" THEN Res(r.heap, Raise("TypeError"), r.ctor)
       ELSE Res(r.heap, StrV(format02x(r.ret.n)), r.ctor)

\* hexbytes.__padhex: args = <<width, fill_hex, pad_left, sign_ext>>
hexbytes_padhex(m, h, s, args) ==
    LET first == IF args[4].b THEN CallAttr(m, h, s, "__getitem__", <<IntV(0)>>)
                 ELSE Res(h, enforcehexbyte(args[2]), <<>>)
    IN IF IsRaise(first.ret) THEN first
       ELSE IF args[4].b /\ first.ret.k # "int" THEN Res(first.heap, Raise("TypeError"), first.ctor)
       ELSE LET fill_hex == IF args[4].b
                            THEN (IF first.ret.n < 128 THEN <<"0", "0">> ELSE <<"f", "f">>)
                            ELSE args[2].s
                parsed == fromhex(fill_hex)
            IN IF ~parsed.ok THEN Res(first.heap, Raise("ValueError"), first.ctor)
               ELSE LET h2 == Alloc(first.heap, h[s].cls, parsed.bs)
                        r == CallAttr(m, h2, s, IF args[3].b THEN "rjust" ELSE "ljust",
                                      <<args[1], ObjV(Len(h2))>>)
                    IN Res(r.heap, r.ret, first.ctor \o r.ctor)

\* hexbytes.lpad(width, fill_hex=None, *, sign_ext=False): args = <<width, fill_hex, sign_ext>>
hexbytes_lpad(m, h, s, args) ==
    IF args[2] = NoneV /\ ~args[3].b THEN Res(h, Raise("ValueError"), <<>>)
    ELSE CallAttr(m, h, s, "_hexbytes__padhex", <<args[1], args[2], BoolV(TRUE), args[3]>>)

\* hexbytes.rpad(width, fill_hex): args = <<width, fill_hex>>
hexbytes_rpad(m, h, s, args) ==
    CallAttr(m, h, s, "_hexbytes__padhex", <<args[1], args[2], BoolV(FALSE), BoolV(FALSE)>>)

hexbytes_method(m, h, s, name, args) ==
    CASE name = "set" -> hexbytes_set(m, h, s, args)
      [] name = "get" -> hexbytes_get(m, h, s, args)
      [] name = "_hexbytes__padhex" -> hexbytes_padhex(m, h, s, args)
      [] name = "lpad" -> hexbytes_lpad(m, h, s, args)
      [] name = "rpad" -> hexbytes_rpad(m, h, s, args)

(***************************************************************************)
(* function_decorators.decorator_varargs                                   *)
(***************************************************************************)
callable(v) == v.k \in {"class", "func"}

NoKwargs == [key \in {} |-> NoneV]

\* A call of the decorator itself: decorator(target, *args, **kwargs).
DecoratorCall(target, args, kwargs) ==
    [k |-> "call", target |-> target, args |-> args, kwargs |-> kwargs]

wrapped_decorator_any(args, kwargs) ==
    IF Len(args) = 1 /\ Cardinality(DOMAIN kwargs) = 0
    THEN DecoratorCall(args[1], <<>>, NoKwargs)
    ELSE [k |-> "closure", args |-> args, kwargs |-> kwargs]

\* wrapped_decorator(*args, **kwargs): either the decorator is called at once
\* or a closure holding the arguments is returned.
wrapped_decorator(args, kwargs) ==
    IF Len(args) = 1 /\ Cardinality(DOMAIN kwargs) = 0 /\ callable(args[1])
    THEN DecoratorCall(args[1], <<>>, NoKwargs)
    ELSE [k |-> "closure", args |-> args, kwargs |-> kwargs]

\* The lambda of line 36 applied to target.
ApplyClosure(c, target) == DecoratorCall(target, c.args, c.kwargs)

(***************************************************************************)
(* class_decorators: the classifier and the two decorators.  A decorator   *)
(* gives [exc, table]: exc is "" and table the rewritten class, or exc is  *)
(* the exception raised and table the class as it was.                     *)
(***************************************************************************)
NameV(n) == [k |-> "str", name |-> n]

Names(coll) == {coll.elems[i].name : i \in DOMAIN coll.elems}

get_methods(m) == DOMAIN m

is_instance_method(m, func_name) == func_name \in DOMAIN m /\ m[func_name].kind = "instance"

unwrap(a) == [a EXCEPT !.layers = <<>>]

\* The direct superclass of the decorated class is bytearray.
is_inherited(m, attr) ==
    /\ attr \in DOMAIN m
    /\ attr \in DOMAIN BytearrayAttrs
    /\ unwrap(m[attr]) = BytearrayAttrs[attr]

object_methods == ObjectNames

default_ignores ==
    CollV("tuple",
          <<NameV("__delitem__"), NameV("__getitem__"), NameV("__setitem__"),
            NameV("__del__"), NameV("__new__"), NameV("__init____len__"),
            NameV("__alloc__"), NameV("__contains__"),
            NameV("__repr__"), NameV("__str__"), NameV("__iter__")>>)

\* The truth value Python's `if` gives a value.
Truthy(v) ==
    CASE v.k = "bool" -> v.b
      [] v.k = "None" -> FALSE
      [] v.k = "int" -> v.n # 0
      [] v.k \in SeqKinds -> v.elems # <<>>
      [] OTHER -> TRUE

Failed(m, exc) == [exc |-> exc, table |-> m]
Rewritten(m) == [exc |-> "", table |-> m]

inherit_apply_wrapper(m, func_name) ==
    [func |-> BytearrayAttrs[func_name].func,
     kind |-> "instance",
     layers |-> <<"downcast">> \o BytearrayAttrs[func_name].layers]

inherit_methods(m, cls, ignore, ignore_obj) ==
    IF cls.k # "class" THEN Failed(m, "TypeError")
    ELSE IF ~seq_holdstype(ignore, "str") THEN Failed(m, "TypeError")
    ELSE LET ign == IF Truthy(ignore_obj) THEN object_methods \cup Names(ignore) ELSE Names(ignore)
             wrap == {x \in get_methods(m) :
                         /\ is_inherited(m, x)
                         /\ x \notin ign
                         /\ is_instance_method(m, x)}
         IN Rewritten([n \in DOMAIN m |->
                          IF n \in wrap THEN inherit_apply_wrapper(m, n) ELSE m[n]])

immutify_apply_wrapper(m, func_name) ==
    [m[func_name] EXCEPT !.layers = <<"immut">> \o @]

\* The loop of lines 151-153 over the names, in order.
RECURSIVE ImmutifyEach(_, _)
ImmutifyEach(m, names) ==
    IF names = <<>> THEN m
    ELSE LET n == Head(names).name
             m2 == IF is_instance_method(m, n)
                   THEN [m EXCEPT ![n] = immutify_apply_wrapper(m, n)]
                   ELSE m
         IN ImmutifyEach(m2, Tail(names))

immutify_methods(m, cls, names) ==
    IF cls.k # "class" THEN Failed(m, "TypeError")
    ELSE IF ~seq_holdstype(names, "str") THEN Failed(m, "TypeError")
    ELSE Rewritten(ImmutifyEach(m, names.elems))

\* Python binds the arguments of decorator(target, *args, **kwargs) to the
\* signature of the decorator (lines 56 and 118) and raises TypeError when
\* they do not fit.
InvokeDecorator(R, m, call) ==
    IF R = "inherit_methods"
    THEN IF call.args # <<>> \/ ~(DOMAIN call.kwargs \subseteq {"ignore", "ignore_obj"})
         THEN Failed(m, "TypeError")
         ELSE inherit_methods(m, call.target,
                  IF "ignore" \in DOMAIN call.kwargs THEN call.kwargs["ignore"] ELSE default_ignores,
                  IF "ignore_obj" \in DOMAIN call.kwargs THEN call.kwargs["ignore_obj"] ELSE BoolV(TRUE))
    ELSE IF \/ Len(call.args) > 1
            \/ ~(DOMAIN call.kwargs \subseteq {"methods"})
            \/ Len(call.args) + Cardinality(DOMAIN call.kwargs) # 1
         THEN Failed(m, "TypeError")
         ELSE immutify_methods(m, call.target,
                  IF call.args # <<>> THEN call.args[1] ELSE call.kwargs["methods"])

(***************************************************************************)
(* The program: the class statement of hexbytes.py with decorator lines    *)
(* above it, then one instance of the class and calls of its methods, one  *)
(* at a time: a call, then the caller drops the result.                    *)
(* decor records the decorator lines run so far; last records the call     *)
(* made last, with the bytes the receiver held before it.                  *)
(***************************************************************************)
InputBytes == {1, 129}

HexTexts ==
    {<<"a", "0">>, <<"a", " ", "0">>, <<"0", "0">>, <<"z", "z">>, <<"0", "1", " ", "a">>}

InheritKwargs == {NoKwargs, "ignore_obj" :> BoolV(FALSE)}

ImmutChoices ==
    {CollV("set", <<NameV("join")>>),
     CollV("set", <<NameV("append"), NameV("pop")>>),
     CollV("list", <<NameV("reverse"), NameV("get"), NameV("fromhex")>>)}

NoCall == [name |-> "", args |-> <<>>, pre |-> <<>>]

Init ==
    /\ pc = "define"
    /\ methods = HexbytesBody
    /\ decor = <<>>
    /\ heap = <<>>
    /\ last = NoCall
    /\ ret = NoneV
    /\ ctor = <<>>

\* One decorator line: R is called through its adapter with args and kwargs
\* and, when that gives a closure, the closure is called with the class.
ApplyDecorator(R, args, kwargs) ==
    /\ pc = "define"
    /\ Len(decor) < MaxDecor
    /\ LET w == wrapped_decorator(args, kwargs)
           call == IF w.k = "call" THEN w ELSE ApplyClosure(w, ClassV("C"))
           out == InvokeDecorator(R, methods, call)
       IN /\ methods' = out.table
          /\ decor' = Append(decor, [R |-> R, args |-> args, kwargs |-> kwargs,
                                      target |-> ClassV("C"), call |-> call])
          /\ pc' = IF out.exc = "" THEN "define" ELSE "failed"
    /\ UNCHANGED <<heap, last, ret, ctor>>

InheritBare == ApplyDecorator("inherit_methods", <<ClassV("C")>>, NoKwargs)

InheritConfigured == \E kw \in InheritKwargs : ApplyDecorator("inherit_methods", <<>>, kw)

Immutify == \E names \in ImmutChoices : ApplyDecorator("immutify_methods", <<names>>, NoKwargs)

Instantiate ==
    /\ pc = "define"
    /\ \E bs \in SeqsUpTo(InputBytes, MaxLen) : heap' = <<[cls |-> "C", bytes |-> bs]>>
    /\ pc' = "ready"
    /\ UNCHANGED <<methods, decor, last, ret, ctor>>

\* The caller keeps the receiver (id 1) and the object the call returned.
Collect(r) ==
    IF r.ret.k = "obj" /\ r.ret.id # 1
    THEN [heap |-> <<r.heap[1], r.heap[r.ret.id]>>, ret |-> ObjV(2)]
    ELSE [heap |-> <<r.heap[1]>>, ret |-> r.ret]

CtorTypes(r) == [i \in DOMAIN r.ctor |-> TypeOf(r.heap, r.ctor[i])]

DoCall(name, args) ==
    /\ pc = "ready"
    /\ pc' = "called"
    /\ LET r == CallAttr(methods, heap, 1, name, args)
       IN /\ heap' = Collect(r).heap
          /\ ret' = Collect(r).ret
          /\ ctor' = CtorTypes(r)
    /\ last' = [name |-> name, args |-> args, pre |-> heap[1].bytes]
    /\ UNCHANGED <<methods, decor>>

\* The caller drops what the call returned and goes on with the receiver.
Discard ==
    /\ pc = "called"
    /\ pc' = "ready"
    /\ heap' = <<heap[1]>>
    /\ last' = NoCall
    /\ ret' = NoneV
    /\ ctor' = <<>>
    /\ UNCHANGED <<methods, decor>>

Room(n) == pc = "ready" /\ Len(heap[1].bytes) + n <= MaxLen

CallAppend == \E b \in InputBytes : Room(1) /\ DoCall("append", <<IntV(b)>>)
CallExtend == \E b \in InputBytes : Room(1) /\ DoCall("extend", <<BytesV(<<b>>)>>)
CallIAdd == \E b \in InputBytes : Room(1) /\ DoCall("__iadd__", <<BytesV(<<b>>)>>)
CallReverse == DoCall("reverse", <<>>)
CallPop == DoCall("pop", <<>>)
CallClear == DoCall("clear", <<>>)
CallCopy == DoCall("copy", <<>>)
CallLen == DoCall("__len__", <<>>)
CallGetItem == \E i \in 0..MaxLen : DoCall("__getitem__", <<IntV(i)>>)
CallSetItem == \E i \in 0..MaxLen, b \in InputBytes : DoCall("__setitem__", <<IntV(i), IntV(b)>>)
CallJoin ==
    \E elems \in SeqsUpTo({BytesV(<<b>>) : b \in InputBytes}, 2) :
        \E kind \in {"list", "tuple"} : DoCall("join", <<CollV(kind, elems)>>)
CallSet == \E i \in 0..MaxLen, t \in HexTexts : DoCall("set", <<IntV(i), StrV(t)>>)
CallGet == \E i \in 0..MaxLen : DoCall("get", <<IntV(i)>>)
CallLPad ==
    \E w \in 0..(MaxLen + 2), f \in {StrV(t) : t \in HexTexts} \cup {NoneV}, sx \in BOOLEAN :
        DoCall("lpad", <<IntV(w), f, BoolV(sx)>>)
CallRPad ==
    \E w \in 0..(MaxLen + 2), f \in {StrV(t) : t \in HexTexts} \cup {NoneV} :
        DoCall("rpad", <<IntV(w), f>>)

Next ==
    \/ InheritBare
    \/ InheritConfigured
    \/ Immutify
    \/ Instantiate
    \/ CallAppend
    \/ CallExtend
    \/ CallIAdd
    \/ CallReverse
    \/ CallPop
    \/ CallClear
    \/ CallCopy
    \/ CallLen
    \/ CallGetItem
    \/ CallSetItem
    \/ CallJoin
    \/ CallSet
    \/ CallGet
    \/ CallLPad
    \/ CallRPad
    \/ Discard

Spec == Init /\ [][Next]_vars

(***************************************************************************)
(* hexbytes.ishexbyte and hexbytes.enforcehexbyte on their own: the text   *)
(* is drawn in the initial state, an action applies the function to it.    *)
(***************************************************************************)
Alphabet == {"a", "0", "1", "z", " "}

InitHexbyte ==
    /\ pc = "text"
    /\ methods = HexbytesBody
    /\ decor = <<>>
    /\ heap = <<>>
    /\ \E t \in SeqsUpTo(Alphabet, MaxTok) : last = [name |-> "", args |-> <<StrV(t)>>, pre |-> <<>>]
    /\ ret = NoneV
    /\ ctor = <<>>

CallIsHexbyte ==
    /\ pc = "text"
    /\ pc' = "checked"
    /\ last' = [last EXCEPT !.name = "ishexbyte"]
    /\ ret' = BoolV(ishexbyte(last.args[1].s))
    /\ UNCHANGED <<methods, decor, heap, ctor>>

CallEnforceHexbyte ==
    /\ pc = "text"
    /\ pc' = "checked"
    /\ last' = [last EXCEPT !.name = "enforcehexbyte"]
    /\ ret' = enforcehexbyte(last.args[1])
    /\ UNCHANGED <<methods, decor, heap, ctor>>

NextHexbyte ==
    \/ CallIsHexbyte
    \/ CallEnforceHexbyte

SpecHexbyte == InitHexbyte /\ [][NextHexbyte]_vars

(***************************************************************************)
(* The adapter on its own: either decorator is called through its adapter  *)
(* with any arguments (kept in last: args, and the keyword arguments in    *)
(* pre); a closure it returns is kept in ret and then called with a        *)
(* target.  decor records the call of the decorator that results.          *)
(***************************************************************************)
AdapterValues ==
    {ClassV("C"), FuncV("f"), CollV("set", <<NameV("join")>>), BoolV(FALSE)}

AdapterKwargs ==
    {NoKwargs,
     "ignore_obj" :> BoolV(FALSE),
     "methods" :> CollV("list", <<NameV("append")>>),
     "ignore" :> FuncV("f")}

Targets == {ClassV("C"), FuncV("f")}

InitVarargs ==
    /\ pc = "adapt"
    /\ methods = HexbytesBody
    /\ decor = <<>>
    /\ heap = <<>>
    /\ last = NoCall
    /\ ret = NoneV
    /\ ctor = <<>>

\* The decorator R runs with the arguments of call on the class; target is
\* the value the decorator was meant for.
RunDecorator(R, args, kwargs, target, call) ==
    LET out == InvokeDecorator(R, methods, call)
    IN /\ methods' = out.table
       /\ decor' = <<[R |-> R, args |-> args, kwargs |-> kwargs,
                      target |-> target, call |-> call]>>
       /\ pc' = IF out.exc = "" THEN "done" ELSE "failed"

AdapterCall ==
    /\ pc = "adapt"
    /\ \E R \in {"inherit_methods", "immutify_methods"}, args \in SeqsUpTo(AdapterValues, MaxArgs),
          kwargs \in AdapterKwargs :
          LET w == wrapped_decorator(args, kwargs)
          IN /\ last' = [name |-> R, args |-> args, pre |-> kwargs]
             /\ IF w.k = "call"
                THEN RunDecorator(R, args, kwargs, args[1], w) /\ ret' = ret
                ELSE pc' = "closure" /\ ret' = w /\ UNCHANGED <<methods, decor>>
    /\ UNCHANGED <<heap, ctor>>

ClosureCall ==
    /\ pc = "closure"
    /\ \E target \in Targets :
          RunDecorator(last.name, last.args, last.pre, target, ApplyClosure(ret, target))
    /\ UNCHANGED <<heap, last, ret, ctor>>

NextVarargs ==
    \/ AdapterCall
    \/ ClosureCall

SpecVarargs == InitVarargs /\ [][NextVarargs]_vars

(***************************************************************************)
(* The wrapper of inherit_methods on its own: an inherited method of the   *)
(* decorated class C is called and the superclass's implementation returns *)
(* any value; the wrapper deals with it.  A value is described by the      *)
(* types of its parts; "self" is the receiver.                             *)
(***************************************************************************)
MaxElems == 2

ElemTypes == {"None", "int", "self", "P", "C", "D", "object"}

RawShapes ==
    {[kind |-> "one", elems |-> <<t>>] : t \in ElemTypes}
    \cup {[kind |-> kd, elems |-> e] : kd \in SeqKinds, e \in SeqsUpTo(ElemTypes, MaxElems)}

\* The values of the given types, the objects among them put on the heap.
RECURSIVE MakeValues(_, _)
MakeValues(h, types) ==
    IF types = <<>> THEN [heap |-> h, vals |-> <<>>]
    ELSE LET t == Head(types)
             h2 == IF t \in {"P", "C", "D"} THEN Alloc(h, t, <<Len(h)>>)
                   ELSE IF t = "object" THEN Append(h, [cls |-> "object"])
                   ELSE h
             v == CASE t = "None" -> NoneV
                    [] t = "int" -> IntV(7)
                    [] t = "self" -> ObjV(1)
                    [] OTHER -> ObjV(Len(h2))
             rest == MakeValues(h2, Tail(types))
         IN [heap |-> rest.heap, vals |-> <<v>> \o rest.vals]

\* What super_method returned: the heap with the new objects, and the value.
RawResult(h, shape) ==
    LET made == MakeValues(h, shape.elems)
    IN Res(made.heap,
           IF shape.kind = "one" THEN made.vals[1] ELSE CollV(shape.kind, made.vals),
           <<>>)

InitDowncast ==
    /\ pc = "ready"
    /\ methods = inherit_methods(HexbytesBody, ClassV("C"), default_ignores, BoolV(TRUE)).table
    /\ decor = <<>>
    /\ \E bs \in SeqsUpTo(InputBytes, 1) : heap = <<[cls |-> "C", bytes |-> bs]>>
    /\ last = NoCall
    /\ ret = NoneV
    /\ ctor = <<>>

\* last.pre keeps the heap as super_method left it, last.args the value it
\* returned.
CallInherited ==
    /\ pc = "ready"
    /\ pc' = "called"
    /\ \E shape \in RawShapes :
          LET raw == RawResult(heap, shape)
              r == DowncastResult(raw, "C")
          IN /\ heap' = r.heap
             /\ ret' = r.ret
             /\ ctor' = CtorTypes(r)
             /\ last' = [name |-> "inherited", args |-> <<raw.ret>>, pre |-> raw.heap]
    /\ UNCHANGED <<methods, decor>>

NextDowncast ==
    \/ CallInherited
    \/ Discard

SpecDowncast == InitDowncast /\ [][NextDowncast]_vars

(***************************************************************************)
(* The claims                                                              *)
(***************************************************************************)
\* The class hexbytes.py defines: inherit_methods bare, then
\* immutify_methods({'join'}).
InheritedClass == inherit_methods(HexbytesBody, ClassV("C"), default_ignores, BoolV(TRUE)).table

HexbytesClass ==
    immutify_methods(InheritedClass, ClassV("C"), CollV("set", <<NameV("join")>>)).table

IsHexbytes == methods = HexbytesClass

Called(name) == pc = "called" /\ last.name = name

\* The call made last went to a method whose outermost wrapper is the one
\* immutify_methods installs.
ImmutifiedCall ==
    /\ pc = "called"
    /\ last.name \in DOMAIN methods
    /\ methods[last.name].layers # <<>>
    /\ Head(methods[last.name].layers) = "immut"

\* The method as it was before immutify_methods wrapped it, run on a copy of
\* the receiver with the arguments of the call made last.
OriginalOnCopy ==
    RunLayers(methods, <<[cls |-> "C", bytes |-> last.pre]>>, 1,
              methods[last.name].func, Tail(methods[last.name].layers), last.args)

\* C1: a call of a method wrapped by immutify_methods leaves the bytes of the
\* receiver as they were, whether it returns or raises; when it returns, the
\* value is another object than the receiver, of the receiver's class, that
\* holds what the original method made of a copy of the receiver.
C1_ImmutifiedKeepsReceiver ==
    ImmutifiedCall =>
        /\ heap[1].bytes = last.pre
        /\ ~IsRaise(ret) =>
              /\ ret = ObjV(2)
              /\ heap[2].cls = heap[1].cls
              /\ heap[2].bytes = OriginalOnCopy.heap[1].bytes

C1_Witness ==
    /\ ImmutifiedCall
    /\ last.name = "append"
    /\ ret = ObjV(2)
    /\ heap[2].bytes = Append(last.pre, last.args[1].n)
    /\ heap[1].bytes = last.pre

\* The value super_method returned is of the direct superclass exactly.
ExactlyP(h, v) == v.k = "obj" /\ h[v.id].cls = "P"

\* v is an instance of C made after super_method returned, with the bytes of src.
BuiltFrom(v, src) ==
    /\ v.k = "obj"
    /\ v.id > Len(last.pre)
    /\ heap[v.id].cls = "C"
    /\ heap[v.id].bytes = last.pre[src.id].bytes

\* C2: the wrapper of inherit_methods returns (a) an instance of C built from
\* the raw result when that is of type P exactly, (b) for a list, tuple, set
\* or frozenset a collection of the same kind with the elements of type P
\* exactly replaced that way and the others untouched, (c) the raw result
\* itself otherwise; and only values of type P exactly reach C's constructor.
C2_DowncastExactlyParent ==
    Called("inherited") =>
        LET raw == last.args[1]
        IN /\ ExactlyP(last.pre, raw) => BuiltFrom(ret, raw)
           /\ raw.k \in SeqKinds =>
                 /\ ret.k = raw.k
                 /\ Len(ret.elems) = Len(raw.elems)
                 /\ \A i \in DOMAIN raw.elems :
                       IF ExactlyP(last.pre, raw.elems[i])
                       THEN BuiltFrom(ret.elems[i], raw.elems[i])
                       ELSE ret.elems[i] = raw.elems[i]
           /\ (~ExactlyP(last.pre, raw) /\ raw.k \notin SeqKinds) => ret = raw
           /\ \A j \in DOMAIN ctor : ctor[j] = "P"

\* C3: on hexbytes, join with a collection of byte strings returns normally a
\* new object holding the joined bytes and leaves the receiver unchanged.
C3_JoinCompletes ==
    (IsHexbytes /\ Called("join")) =>
        /\ ~IsRaise(ret)
        /\ ret = ObjV(2)
        /\ heap[2].bytes = JoinBytes(heap, last.pre, last.args[1].elems)
        /\ heap[1].bytes = last.pre

DocumentedIgnores ==
    {"__getitem__", "__setitem__", "__delitem__", "__del__", "__new__", "__init__",
     "__len__", "__iter__", "__contains__", "__repr__", "__str__"}

\* C5: after inherit_methods has run with the default ignore, with either
\* value of ignore_obj, each of the documented names is still the attribute
\* the class statement left.
C5_DefaultIgnoresKept ==
    \A i \in DOMAIN decor :
        (pc # "failed" /\ decor[i].R = "inherit_methods"
            /\ "ignore" \notin DOMAIN decor[i].call.kwargs) =>
            \A n \in DocumentedIgnores \cap DOMAIN methods : methods[n] = HexbytesBody[n]

\* The text without its blanks.
RECURSIVE NonBlank(_)
NonBlank(t) ==
    IF t = <<>> THEN <<>>
    ELSE IF IsSpace(Head(t)) THEN NonBlank(Tail(t))
    ELSE <<Head(t)>> \o NonBlank(Tail(t))

TwoHexDigits(t) == Len(t) = 2 /\ IsHexDigit(t[1]) /\ IsHexDigit(t[2])

\* C6: ishexbyte is true exactly of the texts that, blanks aside, are two
\* hexadecimal digits: true of "a0" and "a 0", false of "zz", of "a" and of
\* any text with more than two characters that are not blanks.
C6_IsHexbyteTwoDigits ==
    (pc = "checked" /\ last.name = "ishexbyte") =>
        ret = BoolV(TwoHexDigits(NonBlank(last.args[1].s)))

ValidIndex(i) == i \in 0..(Len(last.pre) - 1)

\* C7: on hexbytes, set(i, h) with a valid index and two hexadecimal digits
\* returns normally, stores the value of h at i and changes nothing else;
\* get(i) gives the byte at i as two lowercase hexadecimal digits.
C7_SetThenGet ==
    /\ (IsHexbytes /\ Called("set") /\ ValidIndex(last.args[1].n)
            /\ TwoHexDigits(last.args[2].s)) =>
          /\ ret = NoneV
          /\ heap[1].bytes = [last.pre EXCEPT ![last.args[1].n + 1] = HexNumber(last.args[2].s)]
    /\ (IsHexbytes /\ Called("get") /\ ValidIndex(last.args[1].n)) =>
          ret = StrV(format02x(last.pre[last.args[1].n + 1]))

\* C8: on hexbytes, a call of anything but set and indexed assignment leaves
\* the bytes of the receiver as they were.
C8_OnlySettersMutate ==
    (IsHexbytes /\ pc = "called" /\ last.name \notin {"set", "__setitem__"}) =>
        heap[1].bytes = last.pre

\* The fill byte the claim gives a padding call, or -1 when the claim does
\* not cover the call.
ClaimedFill ==
    IF last.name = "lpad" /\ last.args[3].b
    THEN (IF last.pre = <<>> THEN -1 ELSE IF last.pre[1] < 128 THEN 0 ELSE 255)
    ELSE IF last.args[2].k = "str" /\ TwoHexDigits(last.args[2].s)
    THEN HexNumber(last.args[2].s)
    ELSE -1

\* C9: on hexbytes, padding to a width of at least the length returns width
\* bytes: the receiver's, with the fill byte repeated before them (lpad) or
\* after them (rpad); the fill byte is the value of the two hexadecimal
\* digits given, or with sign_ext the sign of the first byte.
C9_PadToWidth ==
    (IsHexbytes /\ pc = "called" /\ last.name \in {"lpad", "rpad"}
        /\ last.args[1].n >= Len(last.pre) /\ ClaimedFill # -1) =>
        /\ ret = ObjV(2)
        /\ LET pad == Fill(last.args[1].n - Len(last.pre), ClaimedFill)
           IN heap[2].bytes = IF last.name = "lpad" THEN pad \o last.pre ELSE last.pre \o pad

\* The one call shape the adapter takes for the bare form.
DirectShape(args, kwargs) ==
    Len(args) = 1 /\ DOMAIN kwargs = {} /\ args[1].k \in {"class", "func"}

\* C10: a call of the adapter with one callable argument and no keyword calls
\* the decorator at once with that argument alone; any other call gives a
\* closure that calls the decorator with its target and the arguments of the
\* call.  So the bare form and the empty configured form call the decorator
\* the same way and leave the same class.
C10_AdapterForms ==
    /\ pc = "closure" =>
          /\ ~DirectShape(last.args, last.pre)
          /\ ret.args = last.args
          /\ ret.kwargs = last.pre
          /\ decor = <<>>
    /\ \A i \in DOMAIN decor :
          LET e == decor[i]
              plain == DecoratorCall(e.target, <<>>, NoKwargs)
          IN /\ IF DirectShape(e.args, e.kwargs)
                THEN e.call = plain /\ e.target = e.args[1]
                ELSE e.call = DecoratorCall(e.target, e.args, e.kwargs)
             /\ (DirectShape(e.args, e.kwargs) \/ (e.args = <<>> /\ DOMAIN e.kwargs = {})) =>
                   /\ e.call = plain
                   /\ Len(decor) = 1 =>
                         methods = InvokeDecorator(e.R, HexbytesBody, plain).table

C10_Witness ==
    /\ pc = "done"
    /\ decor[1].R = "inherit_methods"
    /\ decor[1].args = <<>>
    /\ DOMAIN decor[1].kwargs = {}
    /\ decor[1].target = ClassV("C")
    /\ methods = InheritedClass
    /\ methods # HexbytesBody

\* C11: when immutify_methods has wrapped an inherited instance method and
\* inherit_methods is applied to the class afterwards, the method keeps the
\* wrapper of immutify_methods in its call chain: a call of it still leaves
\* the bytes of the receiver as they were.
C11_NestedKeepsImmutify ==
    \A i, j \in DOMAIN decor :
        (pc = "called" /\ i < j
            /\ decor[i].R = "immutify_methods" /\ decor[j].R = "inherit_methods"
            /\ last.name \in Names(decor[i].args[1])
            /\ is_instance_method(HexbytesBody, last.name)
            /\ is_inherited(HexbytesBody, last.name)) =>
            /\ "immut" \in Range(methods[last.name].layers)
            /\ heap[1].bytes = last.pre

====
